---- MODULE Spec2Model ----
(***************************************************************************)
(* Model of src/main.rs: main() blocks on Gpu::new() followed by           *)
(* Gpu::run().  The host task is one sequential process whose position is  *)
(* pc (the statement about to execute); the GPU device timeline is a       *)
(* second process that executes the commands submitted to the queue.       *)
(***************************************************************************)
EXTENDS Integers, Naturals, Sequences, FiniteSets, TLC

VARIABLES
    pc,                 \* statement of main/Gpu::new/Gpu::run about to execute
    err,                \* the error that made the task panic, "none" otherwise
    adapter,            \* TRUE once request_adapter returned Some
    device,             \* TRUE once request_device returned Ok (device, queue)
    buffers,            \* every GPU buffer created so far, in creation order
    new_storage_buffer, \* local storage_buffer of Gpu::new (index in buffers, 0 = unset)
    output_buffer,      \* Gpu.output_buffer (index in buffers, 0 = unset)
    storage_buffer,     \* local storage_buffer of Gpu::run (index in buffers, 0 = unset)
    layout_entries,     \* bindings declared by the bind group layout
    pipeline,           \* "none" | "built"
    tex,                \* "none" | "texture" | "view"
    bind_group,         \* entries of the bind group of Gpu::run, <<>> = not created
    encoder,            \* [state, pass, cmds]: the command encoder of Gpu::run
    command_buffer,     \* result of encoder.finish()
    queue,              \* commands submitted to the queue, in submission order
    executed,           \* number of submitted commands the device has completed
    chan,               \* values sent on the oneshot channel (tx side)
    received,           \* "none" | "Ok" | "Err": what rx.receive() returned
    buffer_slice,       \* self.output_buffer.slice(..), << >> = not taken
    data,               \* the BufferView `data`: "none" | "live" | "dropped"
    image,              \* the ImageBuffer built by from_raw, <<>> = none
    file,               \* files written by image.save
    printed,            \* TRUE once "Saved gradient.png" was printed
    calls               \* queue/device/channel calls made by the host after recording

vars == << pc, err, adapter, device, buffers, new_storage_buffer, output_buffer,
           storage_buffer, layout_entries, pipeline, tex, bind_group, encoder,
           command_buffer, queue, executed, chan, received, buffer_slice, data,
           image, file,
           printed, calls >>

ctxVars  == << adapter, device >>
bufVars  == << buffers, new_storage_buffer, output_buffer, storage_buffer >>
pipeVars == << layout_entries, pipeline, tex >>
cmdVars  == << bind_group, encoder, command_buffer >>
gpuVars  == << queue, executed >>
mapVars  == << chan, received, buffer_slice, data >>
outVars  == << image, file, printed >>

\* ---------------------------------------------------------------- constants

texture_size == 256

BytesPerPixel == 4

LocalGroupSize == 8

\* Number of distinct values the opaque kernel may leave in its output buffer.
MaxPixel == 3

KernelOutputs == 1..MaxPixel

\* ---------------------------------------------------------------- helpers

\* buffer_size of Gpu::new: u32 product widened to BufferAddress (below 2^31,
\* so the u32 width does not truncate it).
NewBufferSize == texture_size * texture_size * BytesPerPixel

\* variant: the element size is left out of the product
RunBufferSize_NoElementSize == texture_size * texture_size

\* buffer_size of Gpu::run: usize product cast to u64.
RunBufferSize == texture_size * texture_size * BytesPerPixel

StorageUsage == {"STORAGE", "COPY_SRC", "COPY_DST"}

\* variant: the readback buffer is also given STORAGE usage
OutputUsage_WithStorage == {"COPY_DST", "MAP_READ", "STORAGE"}

OutputUsage == {"COPY_DST", "MAP_READ"}

\* device.create_buffer(&BufferDescriptor {label, size, usage, mapped_at_creation: false})
CreateBuffer(label, size, usage) ==
    [label |-> label, size |-> size, usage |-> usage,
     map |-> "unmapped", alive |-> TRUE, bytes |-> 0]

\* panic raised by unwrap() or by the device's default uncaptured-error handler
Panic(e) == pc' = "panicked" /\ err' = e

Terminal == {"done", "panicked"}

\* ---------------------------------------------------------------- Init

Init ==
    /\ pc = "instance_new"
    /\ err = "none"
    /\ adapter = FALSE
    /\ device = FALSE
    /\ buffers = << >>
    /\ new_storage_buffer = 0
    /\ output_buffer = 0
    /\ storage_buffer = 0
    /\ layout_entries = << >>
    /\ pipeline = "none"
    /\ tex = "none"
    /\ bind_group = << >>
    /\ encoder = [state |-> "none", pass |-> "none", cmds |-> << >>]
    /\ command_buffer = << >>
    /\ queue = << >>
    /\ executed = 0
    /\ chan = << >>
    /\ received = "none"
    /\ buffer_slice = << >>
    /\ data = "none"
    /\ image = << >>
    /\ file = {}
    /\ printed = FALSE
    /\ calls = << >>

\* ---------------------------------------------------------------- Gpu::new

InstanceNew ==
    /\ pc = "instance_new"
    /\ pc' = "request_adapter"
    /\ UNCHANGED << err, ctxVars, bufVars, pipeVars, cmdVars, gpuVars, mapVars,
                    outVars, calls >>

RequestAdapter ==
    /\ pc = "request_adapter"
    /\ \E found \in BOOLEAN :
          IF found
          THEN adapter' = TRUE /\ pc' = "request_device" /\ UNCHANGED err
          ELSE Panic("AdapterNotFound") /\ UNCHANGED adapter
    /\ UNCHANGED << device, bufVars, pipeVars, cmdVars, gpuVars, mapVars,
                    outVars, calls >>

RequestDevice ==
    /\ pc = "request_device"
    /\ \E granted \in BOOLEAN :
          IF granted
          THEN device' = TRUE /\ pc' = "new_create_storage_buffer" /\ UNCHANGED err
          ELSE Panic("DeviceRequestFailed") /\ UNCHANGED device
    /\ UNCHANGED << adapter, bufVars, pipeVars, cmdVars, gpuVars, mapVars,
                    outVars, calls >>

NewCreateStorageBuffer ==
    /\ pc = "new_create_storage_buffer"
    /\ buffers' = Append(buffers, CreateBuffer("Storage Buffer", NewBufferSize, StorageUsage))
    /\ new_storage_buffer' = Len(buffers) + 1
    /\ pc' = "new_create_output_buffer"
    /\ UNCHANGED << err, ctxVars, output_buffer, storage_buffer, pipeVars, cmdVars,
                    gpuVars, mapVars, outVars, calls >>

NewCreateOutputBuffer ==
    /\ pc = "new_create_output_buffer"
    /\ buffers' = Append(buffers, CreateBuffer("Output Buffer", NewBufferSize, OutputUsage))
    /\ output_buffer' = Len(buffers) + 1
    /\ pc' = "create_shader_module"
    /\ UNCHANGED << err, ctxVars, new_storage_buffer, storage_buffer, pipeVars,
                    cmdVars, gpuVars, mapVars, outVars, calls >>

CreateShaderModule ==
    /\ pc = "create_shader_module"
    /\ pc' = "create_bind_group_layout"
    /\ UNCHANGED << err, ctxVars, bufVars, pipeVars, cmdVars, gpuVars, mapVars,
                    outVars, calls >>

CreateBindGroupLayout ==
    /\ pc = "create_bind_group_layout"
    /\ layout_entries' = << [binding |-> 0, visibility |-> "COMPUTE",
                             ty |-> "Storage", read_only |-> FALSE] >>
    /\ pc' = "create_pipeline_layout"
    /\ UNCHANGED << err, ctxVars, bufVars, pipeline, tex, cmdVars, gpuVars,
                    mapVars, outVars, calls >>

CreatePipelineLayout ==
    /\ pc = "create_pipeline_layout"
    /\ pc' = "create_compute_pipeline"
    /\ UNCHANGED << err, ctxVars, bufVars, pipeVars, cmdVars, gpuVars, mapVars,
                    outVars, calls >>

\* variant: a validation error is only recorded (an error scope swallows it)
\* and construction carries on
CreateComputePipeline_Continue ==
    /\ pc = "create_compute_pipeline"
    /\ \E valid \in BOOLEAN :
          IF valid
          THEN pipeline' = "built" /\ UNCHANGED err
          ELSE err' = "PipelineValidationFailed" /\ UNCHANGED pipeline
    /\ pc' = "create_texture"
    /\ UNCHANGED << ctxVars, bufVars, layout_entries, tex, cmdVars, gpuVars,
                    mapVars, outVars, calls >>

\* The shader artifact is an opaque input: whether the layout and the entry
\* point "compute_main" validate against it is decided by the device.  A
\* validation error reaches the default uncaptured-error handler, which panics.
CreateComputePipeline ==
    /\ pc = "create_compute_pipeline"
    /\ \E valid \in BOOLEAN :
          IF valid
          THEN pipeline' = "built" /\ pc' = "create_texture" /\ UNCHANGED err
          ELSE Panic("PipelineValidationFailed") /\ UNCHANGED pipeline
    /\ UNCHANGED << ctxVars, bufVars, layout_entries, tex, cmdVars, gpuVars,
                    mapVars, outVars, calls >>

CreateTexture ==
    /\ pc = "create_texture"
    /\ tex' = "texture"
    /\ pc' = "create_view"
    /\ UNCHANGED << err, ctxVars, bufVars, layout_entries, pipeline, cmdVars,
                    gpuVars, mapVars, outVars, calls >>

CreateView ==
    /\ pc = "create_view"
    /\ tex' = "view"
    /\ pc' = "new_return"
    /\ UNCHANGED << err, ctxVars, bufVars, layout_entries, pipeline, cmdVars,
                    gpuVars, mapVars, outVars, calls >>

\* Self { .. output_buffer }: the local storage_buffer of Gpu::new is not moved
\* into Self and is dropped when new() returns.
NewReturn ==
    /\ pc = "new_return"
    /\ buffers' = [buffers EXCEPT ![new_storage_buffer].alive = FALSE]
    /\ pc' = "run_create_storage_buffer"
    /\ UNCHANGED << err, ctxVars, new_storage_buffer, output_buffer, storage_buffer,
                    pipeVars, cmdVars, gpuVars, mapVars, outVars, calls >>

\* ---------------------------------------------------------------- Gpu::run: recording

\* ceil(n / d), the workgroup count the spec prescribes for n texels
CeilDiv(n, d) == (n + d - 1) \div d

\* variant: the texel counts are dispatched without dividing by the group size
DispatchCounts_Texels == << 256, 256, 1 >>

\* the literal workgroup counts of cpass.dispatch_workgroups(32, 32, 1)
DispatchCounts == << 32, 32, 1 >>

Cmd(op, args) == [op |-> op, args |-> args]

Record(cmd) == encoder' = [encoder EXCEPT !.cmds = Append(@, cmd)]

RunCreateStorageBuffer ==
    /\ pc = "run_create_storage_buffer"
    /\ buffers' = Append(buffers, CreateBuffer("Storage Buffer", RunBufferSize, StorageUsage))
    /\ storage_buffer' = Len(buffers) + 1
    /\ pc' = "get_bind_group_layout"
    /\ UNCHANGED << err, ctxVars, new_storage_buffer, output_buffer, pipeVars,
                    cmdVars, gpuVars, mapVars, outVars, calls >>

GetBindGroupLayout ==
    /\ pc = "get_bind_group_layout"
    /\ pc' = "create_bind_group"
    /\ UNCHANGED << err, ctxVars, bufVars, pipeVars, cmdVars, gpuVars, mapVars,
                    outVars, calls >>

\* entries: [BindGroupEntry { binding: 0, resource: storage_buffer.as_entire_binding() }]
\* A storage binding needs a buffer created with STORAGE usage and a layout
\* that declares the binding.
CreateBindGroup ==
    /\ pc = "create_bind_group"
    /\ IF /\ "STORAGE" \in buffers[storage_buffer].usage
          /\ \E i \in 1..Len(layout_entries) : layout_entries[i].binding = 0
       THEN /\ bind_group' = << [binding |-> 0, buffer |-> storage_buffer] >>
            /\ pc' = "create_command_encoder"
            /\ UNCHANGED err
       ELSE Panic("ValidationError") /\ UNCHANGED bind_group
    /\ UNCHANGED << ctxVars, bufVars, pipeVars, encoder, command_buffer, gpuVars,
                    mapVars, outVars, calls >>

CreateCommandEncoder ==
    /\ pc = "create_command_encoder"
    /\ encoder' = [state |-> "recording", pass |-> "none", cmds |-> << >>]
    /\ pc' = "begin_compute_pass"
    /\ UNCHANGED << err, ctxVars, bufVars, pipeVars, bind_group, command_buffer,
                    gpuVars, mapVars, outVars, calls >>

BeginComputePass ==
    /\ pc = "begin_compute_pass"
    /\ encoder' = [encoder EXCEPT !.pass = "open",
                                  !.cmds = Append(@, Cmd("begin_compute_pass", << >>))]
    /\ pc' = "set_pipeline"
    /\ UNCHANGED << err, ctxVars, bufVars, pipeVars, bind_group, command_buffer,
                    gpuVars, mapVars, outVars, calls >>

SetPipeline ==
    /\ pc = "set_pipeline"
    /\ Record(Cmd("set_pipeline", << >>))
    /\ pc' = "set_bind_group"
    /\ UNCHANGED << err, ctxVars, bufVars, pipeVars, bind_group, command_buffer,
                    gpuVars, mapVars, outVars, calls >>

\* cpass.set_bind_group(0, &bind_group, &[]): args are the group index and the
\* buffer each binding of the group refers to
SetBindGroup ==
    /\ pc = "set_bind_group"
    /\ Record(Cmd("set_bind_group", << 0, bind_group[1].binding, bind_group[1].buffer >>))
    /\ pc' = "dispatch_workgroups"
    /\ UNCHANGED << err, ctxVars, bufVars, pipeVars, bind_group, command_buffer,
                    gpuVars, mapVars, outVars, calls >>

DispatchWorkgroups ==
    /\ pc = "dispatch_workgroups"
    /\ Record(Cmd("dispatch_workgroups", DispatchCounts))
    /\ pc' = "end_compute_pass"
    /\ UNCHANGED << err, ctxVars, bufVars, pipeVars, bind_group, command_buffer,
                    gpuVars, mapVars, outVars, calls >>

\* variant: the pass is not scoped, so it is still open when the copy is recorded
EndComputePass_Unscoped ==
    /\ pc = "end_compute_pass"
    /\ pc' = "copy_buffer_to_buffer"
    /\ UNCHANGED << err, ctxVars, bufVars, pipeVars, cmdVars, gpuVars, mapVars,
                    outVars, calls >>

\* the closing brace of the block drops cpass, which ends the compute pass
EndComputePass ==
    /\ pc = "end_compute_pass"
    /\ encoder' = [encoder EXCEPT !.pass = "closed",
                                  !.cmds = Append(@, Cmd("end_compute_pass", << >>))]
    /\ pc' = "copy_buffer_to_buffer"
    /\ UNCHANGED << err, ctxVars, bufVars, pipeVars, bind_group, command_buffer,
                    gpuVars, mapVars, outVars, calls >>

\* encoder.copy_buffer_to_buffer(&storage_buffer, 0, &self.output_buffer, 0, buffer_size)
CopyArgs == << storage_buffer, 0, output_buffer, 0, RunBufferSize >>

CopyValid(a) ==
    /\ "COPY_SRC" \in buffers[a[1]].usage
    /\ "COPY_DST" \in buffers[a[3]].usage
    /\ a[2] + a[5] <= buffers[a[1]].size
    /\ a[4] + a[5] <= buffers[a[3]].size
    /\ a[5] % 4 = 0

CopyBufferToBuffer ==
    /\ pc = "copy_buffer_to_buffer"
    /\ IF CopyValid(CopyArgs)
       THEN /\ Record(Cmd("copy_buffer_to_buffer", CopyArgs))
            /\ pc' = "finish"
            /\ UNCHANGED err
       ELSE Panic("ValidationError") /\ UNCHANGED encoder
    /\ UNCHANGED << ctxVars, bufVars, pipeVars, bind_group, command_buffer,
                    gpuVars, mapVars, outVars, calls >>

\* encoder.finish(): the command sequence becomes immutable
Finish ==
    /\ pc = "finish"
    /\ command_buffer' = encoder.cmds
    /\ encoder' = [encoder EXCEPT !.state = "finished"]
    /\ pc' = "submit"
    /\ UNCHANGED << err, ctxVars, bufVars, pipeVars, bind_group, gpuVars, mapVars,
                    outVars, calls >>

\* variant: the finished command buffer is never submitted
Submit_Forgotten ==
    /\ pc = "submit"
    /\ pc' = "slice"
    /\ UNCHANGED << err, ctxVars, bufVars, pipeVars, cmdVars, gpuVars, mapVars,
                    outVars, calls >>

\* self.queue.submit(Some(command_buffer))
Submit ==
    /\ pc = "submit"
    /\ queue' = queue \o command_buffer
    /\ calls' = Append(calls, "submit")
    /\ pc' = "slice"
    /\ UNCHANGED << err, ctxVars, bufVars, pipeVars, cmdVars, executed, mapVars,
                    outVars >>

\* ---------------------------------------------------------------- Gpu::run: readback

\* self.output_buffer.slice(..): the whole buffer
Slice ==
    /\ pc = "slice"
    /\ buffer_slice' = [buffer |-> output_buffer, offset |-> 0,
                        size |-> buffers[output_buffer].size]
    /\ pc' = "oneshot_channel"
    /\ UNCHANGED << err, ctxVars, bufVars, pipeVars, cmdVars, gpuVars, chan,
                    received, data, outVars, calls >>

OneshotChannel ==
    /\ pc = "oneshot_channel"
    /\ chan' = << >>
    /\ pc' = "map_async"
    /\ UNCHANGED << err, ctxVars, bufVars, pipeVars, cmdVars, gpuVars, received,
                    buffer_slice, data, outVars, calls >>

\* buffer_slice.map_async(MapMode::Read, move |v| tx.send(v).unwrap()): the
\* request is left pending for the device; a request the buffer cannot accept
\* (no MAP_READ usage, already mapped or pending) runs the callback at once
\* with an error.
MapAsync ==
    /\ pc = "map_async"
    /\ IF /\ "MAP_READ" \in buffers[buffer_slice.buffer].usage
          /\ buffers[buffer_slice.buffer].map = "unmapped"
       THEN /\ buffers' = [buffers EXCEPT ![buffer_slice.buffer].map = "pending"]
            /\ UNCHANGED chan
       ELSE /\ chan' = Append(chan, "Err")
            /\ UNCHANGED buffers
    /\ calls' = Append(calls, "map_async")
    /\ pc' = "poll"
    /\ UNCHANGED << err, ctxVars, new_storage_buffer, output_buffer, storage_buffer,
                    pipeVars, cmdVars, gpuVars, received, buffer_slice, data, outVars >>

\* variant: a non-blocking poll, which returns at once and runs the map
\* callback only if the device happens to be idle already
Poll_NonBlocking ==
    /\ pc = "poll"
    /\ calls' = Append(calls, "poll")
    /\ pc' = "receive"
    /\ IF executed = Len(queue) /\ buffers[output_buffer].map = "pending"
       THEN \E v \in {"Ok", "Err"} :
               /\ buffers' = [buffers EXCEPT ![output_buffer].map =
                                 IF v = "Ok" THEN "mapped" ELSE "unmapped"]
               /\ chan' = Append(chan, v)
       ELSE UNCHANGED << buffers, chan >>
    /\ UNCHANGED << err, ctxVars, new_storage_buffer, output_buffer, storage_buffer,
                    pipeVars, cmdVars, gpuVars, received, buffer_slice, data, outVars >>

\* self.device.poll(PollType::Wait).unwrap(): returns once the device has
\* completed every submitted command; before returning it resolves the pending
\* map request and runs its callback, which sends the result on tx.
Poll ==
    /\ pc = "poll"
    /\ executed = Len(queue)
    /\ calls' = Append(calls, "poll")
    /\ \E polled \in BOOLEAN :
          IF polled
          THEN /\ pc' = "receive"
               /\ UNCHANGED err
               /\ IF buffers[output_buffer].map = "pending"
                  THEN \E v \in {"Ok", "Err"} :
                          /\ buffers' = [buffers EXCEPT ![output_buffer].map =
                                            IF v = "Ok" THEN "mapped" ELSE "unmapped"]
                          /\ chan' = Append(chan, v)
                  ELSE UNCHANGED << buffers, chan >>
          ELSE /\ Panic("PollFailed")
               /\ UNCHANGED << buffers, chan >>
    /\ UNCHANGED << ctxVars, new_storage_buffer, output_buffer, storage_buffer,
                    pipeVars, cmdVars, gpuVars, received, buffer_slice, data, outVars >>

\* variant: the inner Result is not unwrapped, so a map error goes unnoticed
Receive_ResultIgnored ==
    /\ pc = "receive"
    /\ Len(chan) > 0
    /\ received' = chan[1]
    /\ calls' = Append(calls, "receive")
    /\ pc' = "get_mapped_range"
    /\ UNCHANGED << err, ctxVars, bufVars, pipeVars, cmdVars, gpuVars, chan,
                    buffer_slice, data, outVars >>

\* rx.receive().await.unwrap().unwrap(): the task is suspended until a value
\* has been sent; an Err value panics.
Receive ==
    /\ pc = "receive"
    /\ Len(chan) > 0
    /\ received' = chan[1]
    /\ calls' = Append(calls, "receive")
    /\ IF chan[1] = "Ok"
       THEN pc' = "get_mapped_range" /\ UNCHANGED err
       ELSE Panic("BufferMapFailed")
    /\ UNCHANGED << ctxVars, bufVars, pipeVars, cmdVars, gpuVars, chan,
                    buffer_slice, data, outVars >>

\* let data = buffer_slice.get_mapped_range(): panics on a buffer that is not mapped
GetMappedRange ==
    /\ pc = "get_mapped_range"
    /\ IF buffers[buffer_slice.buffer].map = "mapped"
       THEN data' = "live" /\ pc' = "from_raw" /\ UNCHANGED err
       ELSE Panic("BufferNotMapped") /\ UNCHANGED data
    /\ UNCHANGED << ctxVars, bufVars, pipeVars, cmdVars, gpuVars, chan, received,
                    buffer_slice, outVars, calls >>

\* ImageBuffer::from_raw(texture_size, texture_size, data.to_vec()).unwrap():
\* to_vec copies the bytes of the view; from_raw returns None when the
\* container is too small for width * height pixels of 4 bytes.
FromRaw ==
    /\ pc = "from_raw"
    /\ LET len == buffer_slice.size
       IN  IF texture_size * texture_size * 4 <= len
           THEN /\ image' = << [width |-> texture_size, height |-> texture_size,
                                len |-> len,
                                pixels |-> buffers[buffer_slice.buffer].bytes] >>
                /\ pc' = "save"
                /\ UNCHANGED err
           ELSE Panic("MalformedPixelBuffer") /\ UNCHANGED image
    /\ UNCHANGED << ctxVars, bufVars, pipeVars, cmdVars, gpuVars, mapVars, file,
                    printed, calls >>

\* image.save("gradient.png").unwrap()
Save ==
    /\ pc = "save"
    /\ \E saved \in BOOLEAN :
          IF saved
          THEN /\ file' = file \cup { [name |-> "gradient.png",
                                       width |-> image[1].width,
                                       height |-> image[1].height,
                                       channels |-> 4,
                                       pixels |-> image[1].pixels] }
               /\ pc' = "println"
               /\ UNCHANGED err
          ELSE Panic("ImageEncodeFailed") /\ UNCHANGED file
    /\ UNCHANGED << ctxVars, bufVars, pipeVars, cmdVars, gpuVars, mapVars, image,
                    printed, calls >>

Println ==
    /\ pc = "println"
    /\ printed' = TRUE
    /\ pc' = "drop_data"
    /\ UNCHANGED << err, ctxVars, bufVars, pipeVars, cmdVars, gpuVars, mapVars,
                    image, file, calls >>

\* the closing brace of the block drops image and data
DropData ==
    /\ pc = "drop_data"
    /\ data' = "dropped"
    /\ image' = << >>
    /\ pc' = "unmap"
    /\ UNCHANGED << err, ctxVars, bufVars, pipeVars, cmdVars, gpuVars, chan,
                    received, buffer_slice, file, printed, calls >>

\* variant: the buffer is left mapped
Unmap_Forgotten ==
    /\ pc = "unmap"
    /\ pc' = "run_return"
    /\ UNCHANGED << err, ctxVars, bufVars, pipeVars, cmdVars, gpuVars, mapVars,
                    outVars, calls >>

\* self.output_buffer.unmap(): panics while a view of the buffer is alive
Unmap ==
    /\ pc = "unmap"
    /\ IF data = "live"
       THEN Panic("ViewStillAlive") /\ UNCHANGED buffers
       ELSE /\ buffers' = [buffers EXCEPT ![output_buffer].map = "unmapped"]
            /\ pc' = "run_return"
            /\ UNCHANGED err
    /\ UNCHANGED << ctxVars, new_storage_buffer, output_buffer, storage_buffer,
                    pipeVars, cmdVars, gpuVars, mapVars, outVars, calls >>

\* end of run(): the local storage_buffer is dropped; main returns
RunReturn ==
    /\ pc = "run_return"
    /\ buffers' = [buffers EXCEPT ![storage_buffer].alive = FALSE]
    /\ pc' = "done"
    /\ UNCHANGED << err, ctxVars, new_storage_buffer, output_buffer, storage_buffer,
                    pipeVars, cmdVars, gpuVars, mapVars, outVars, calls >>

\* ---------------------------------------------------------------- device timeline

\* the buffer bound at slot 0 by the last set_bind_group before command i
RECURSIVE BoundBuffer(_, _)
BoundBuffer(q, i) ==
    IF i = 0 THEN 0
    ELSE IF q[i].op = "set_bind_group" THEN q[i].args[3]
    ELSE BoundBuffer(q, i - 1)

\* The device executes the submitted commands in submission order while the
\* host task lives.  A dispatch runs the opaque kernel, which writes the buffer
\* bound at slot 0; a copy transfers the source bytes to the destination.
DeviceExecute ==
    /\ pc \notin Terminal
    /\ executed < Len(queue)
    /\ LET cmd == queue[executed + 1]
       IN  CASE cmd.op = "dispatch_workgroups" ->
                  \E v \in KernelOutputs :
                     buffers' = [buffers EXCEPT ![BoundBuffer(queue, executed)].bytes = v]
             [] cmd.op = "copy_buffer_to_buffer" ->
                  buffers' = [buffers EXCEPT ![cmd.args[3]].bytes = buffers[cmd.args[1]].bytes]
             [] OTHER -> UNCHANGED buffers
    /\ executed' = executed + 1
    /\ UNCHANGED << pc, err, ctxVars, new_storage_buffer, output_buffer, storage_buffer,
                    pipeVars, cmdVars, queue, mapVars, outVars, calls >>

\* ---------------------------------------------------------------- specification

HostNext ==
    \/ InstanceNew \/ RequestAdapter \/ RequestDevice
    \/ NewCreateStorageBuffer \/ NewCreateOutputBuffer
    \/ CreateShaderModule \/ CreateBindGroupLayout \/ CreatePipelineLayout
    \/ CreateComputePipeline \/ CreateTexture \/ CreateView \/ NewReturn
    \/ RunCreateStorageBuffer \/ GetBindGroupLayout \/ CreateBindGroup
    \/ CreateCommandEncoder \/ BeginComputePass \/ SetPipeline \/ SetBindGroup
    \/ DispatchWorkgroups \/ EndComputePass \/ CopyBufferToBuffer
    \/ Finish \/ Submit
    \/ Slice \/ OneshotChannel \/ MapAsync \/ Poll \/ Receive
    \/ GetMappedRange \/ FromRaw \/ Save \/ Println \/ DropData \/ Unmap
    \/ RunReturn

Next == HostNext \/ DeviceExecute

Spec == Init /\ [][Next]_vars

\* The host task runs to its next statement whenever it can, and the device
\* keeps executing submitted work (the blocking poll returns).
LiveSpec == Spec /\ WF_vars(HostNext) /\ WF_vars(DeviceExecute)

\* ---------------------------------------------------------------- properties

\* map state of Gpu.output_buffer ("none" before the buffer exists)
OutputMap == IF output_buffer = 0 THEN "none" ELSE buffers[output_buffer].map

Ops(s) == [i \in 1..Len(s) |-> s[i].op]

IsPrefix(a, b) == Len(a) <= Len(b) /\ \A i \in 1..Len(a) : a[i] = b[i]

Recorded(op) == \E i \in 1..Len(encoder.cmds) : encoder.cmds[i].op = op

\* C1: the mapped range of the staging buffer is obtained and read only after
\* the map notification has been sent and received with a success result:
\* get_mapped_range is never reached, and no view or image exists, while the
\* request is pending or after it reported an error.
C1_ReadOnlyAfterMapSuccess ==
    /\ pc \in {"get_mapped_range", "from_raw", "save", "println", "drop_data"}
          => /\ Len(chan) = 1 /\ chan[1] = "Ok"
             /\ received = "Ok"
             /\ OutputMap = "mapped"
    /\ (data = "live" \/ image # << >> \/ file # {})
          => /\ received = "Ok"
             /\ chan = << "Ok" >>
    /\ OutputMap = "pending" => data = "none" /\ image = << >>

C1_Witness == data = "live" /\ image # << >> /\ received = "Ok"

RecordOrder ==
    << "begin_compute_pass", "set_pipeline", "set_bind_group",
       "dispatch_workgroups", "end_compute_pass", "copy_buffer_to_buffer" >>

\* C2: the commands are recorded in the order begin pass, set pipeline, set
\* bind group, dispatch, end pass, copy, finish; the copy is recorded only once
\* the compute pass is closed, and it copies the compute-output buffer to the
\* staging buffer.
C2_PassClosedBeforeCopy ==
    /\ IsPrefix(Ops(encoder.cmds), RecordOrder)
    /\ Recorded("copy_buffer_to_buffer") => encoder.pass = "closed"
    /\ pc = "copy_buffer_to_buffer" => encoder.pass = "closed"
    /\ encoder.state = "finished"
          => /\ Ops(command_buffer) = RecordOrder
             /\ command_buffer[6].args[1] = storage_buffer
             /\ command_buffer[6].args[3] = output_buffer

C2_Witness == encoder.state = "finished" /\ Len(command_buffer) = 6

\* C3: the staging buffer is unmapped only after the bytes were consumed and
\* the view was released; the view is never live on an unmapped buffer; a run
\* that completes leaves the staging buffer unmapped.
C3_UnmapAfterUse ==
    /\ pc = "unmap" => data = "dropped" /\ file # {} /\ OutputMap = "mapped"
    /\ data = "live" => OutputMap = "mapped"
    /\ pc \in {"run_return", "done"}
          => /\ OutputMap = "unmapped"
             /\ data = "dropped"
             /\ file # {}

C3_Witness == pc = "done" /\ OutputMap = "unmapped" /\ data = "dropped"

\* C4: both kinds of buffer are allocated with width * height * 4 bytes
\* (262144 for 256 x 256), the copy covers that many bytes from offset 0 to
\* offset 0, and the bytes read back after a successful map are that many.
C4_BufferSizes ==
    LET bytes == texture_size * texture_size * 4
    IN  /\ bytes = 262144
        /\ \A i \in 1..Len(buffers) : buffers[i].size = bytes
        /\ \A i \in 1..Len(encoder.cmds) :
              encoder.cmds[i].op = "copy_buffer_to_buffer"
                 => /\ encoder.cmds[i].args[2] = 0
                    /\ encoder.cmds[i].args[4] = 0
                    /\ encoder.cmds[i].args[5] = bytes
                    /\ buffers[encoder.cmds[i].args[1]].size = bytes
                    /\ buffers[encoder.cmds[i].args[3]].size = bytes
        /\ buffer_slice # << >> => buffer_slice.offset = 0 /\ buffer_slice.size = bytes
        /\ image # << >> => image[1].len = bytes

C4_Witness == image # << >> /\ image[1].len = 262144 /\ Len(buffers) >= 2

\* C5: every recorded dispatch has workgroup counts
\* (ceil(W / 8), ceil(H / 8), 1), which is (32, 32, 1) for W = H = 256.
C5_DispatchCounts ==
    \A i \in 1..Len(encoder.cmds) :
        encoder.cmds[i].op = "dispatch_workgroups"
           => /\ encoder.cmds[i].args = << CeilDiv(texture_size, LocalGroupSize),
                                           CeilDiv(texture_size, LocalGroupSize), 1 >>
              /\ encoder.cmds[i].args = << 32, 32, 1 >>

C5_Witness ==
    /\ executed >= 4
    /\ queue[4].op = "dispatch_workgroups"
    /\ queue[4].args = << 32, 32, 1 >>

\* C6: exactly two GPU buffers are created over the whole execution, one
\* compute-output buffer and one staging buffer.
C6_ExactlyTwoBuffers ==
    /\ Len(buffers) <= 2
    /\ pc = "done" => Len(buffers) = 2

\* C7 as stated: the compute-output buffer has exactly the usage flags storage
\* and copy-source, the staging buffer exactly copy-destination and map-read,
\* slot 0 of the bind group is the compute-output buffer and the staging buffer
\* is never bound.
C7_UsageAsStated ==
    /\ \A i \in 1..Len(buffers) :
          /\ i \in {new_storage_buffer, storage_buffer}
                => buffers[i].usage = {"STORAGE", "COPY_SRC"}
          /\ i = output_buffer => buffers[i].usage = {"COPY_DST", "MAP_READ"}
    /\ bind_group # << >>
          => /\ Len(bind_group) = 1
             /\ bind_group[1].binding = 0
             /\ bind_group[1].buffer = storage_buffer
             /\ bind_group[1].buffer # output_buffer

\* C7 amended: the compute-output buffer has the usage flags storage,
\* copy-source and copy-destination; the staging buffer has copy-destination
\* and map-read only; slot 0 of the bind group is the compute-output buffer
\* and the staging buffer is never bound to the pipeline.
C7_UsageAndBinding ==
    /\ \A i \in 1..Len(buffers) :
          /\ i \in {new_storage_buffer, storage_buffer}
                => buffers[i].usage = {"STORAGE", "COPY_SRC", "COPY_DST"}
          /\ i = output_buffer => buffers[i].usage = {"COPY_DST", "MAP_READ"}
          /\ i \in {new_storage_buffer, storage_buffer, output_buffer}
    /\ bind_group # << >>
          => /\ Len(bind_group) = 1
             /\ bind_group[1].binding = 0
             /\ bind_group[1].buffer = storage_buffer
             /\ bind_group[1].buffer # output_buffer
    /\ \A i \in 1..Len(encoder.cmds) :
          encoder.cmds[i].op = "set_bind_group"
             => /\ encoder.cmds[i].args[3] = storage_buffer
                /\ encoder.cmds[i].args[3] # output_buffer
    /\ \A i \in 1..executed : BoundBuffer(queue, i) # output_buffer

C7_Witness ==
    /\ bind_group # << >>
    /\ Recorded("set_bind_group")
    /\ executed = Len(queue) /\ Len(queue) > 0

\* what each fatal error leaves undone
ErrorStops ==
    /\ err # "none" <=> pc = "panicked"
    /\ err = "AdapterNotFound" => ~adapter /\ ~device /\ buffers = << >>
    /\ err = "DeviceRequestFailed" => ~device /\ buffers = << >> /\ pipeline = "none"
    /\ err = "PipelineValidationFailed"
          => /\ pipeline = "none"
             /\ bind_group = << >>
             /\ encoder.cmds = << >>
             /\ queue = << >>
    /\ err = "BufferMapFailed"
          => /\ data = "none"
             /\ image = << >>
             /\ file = {}
             /\ ~printed
    /\ err = "MalformedPixelBuffer" => file = {} /\ ~printed
    /\ err = "ImageEncodeFailed" => file = {} /\ ~printed

\* C8: every error is fatal: once the task has panicked nothing further
\* happens, a failed stage leaves every later stage undone; no dispatch is
\* recorded or submitted after a pipeline validation failure, and no file is
\* written and nothing is printed after a map failure.
C8_ErrorsAreFatal == []ErrorStops /\ [][pc # "panicked"]_vars

C8_Witness == err = "BufferMapFailed" /\ pc = "panicked" /\ Len(queue) > 0

HostOrder == << "submit", "map_async", "poll", "receive" >>

\* C9: the host calls occur in the order submit, map request, device poll,
\* await; the map request is issued and awaited only once the finished command
\* sequence with the dispatch and the copy is in the queue.
C9_HostOrder ==
    /\ IsPrefix(calls, HostOrder)
    /\ (OutputMap \in {"pending", "mapped"} \/ chan # << >> \/ pc \in {"poll", "receive"})
          => /\ encoder.state = "finished"
             /\ queue = command_buffer
             /\ \E i \in 1..Len(queue) : queue[i].op = "dispatch_workgroups"
             /\ \E i \in 1..Len(queue) : queue[i].op = "copy_buffer_to_buffer"

C9_Witness == calls = HostOrder

\* the host task is neither finished nor able to take a step
Blocked == pc \notin Terminal /\ ~ENABLED HostNext

\* C10 as stated: from the await on, the run always finishes with the bytes
\* read, the file written and the buffer unmapped.
C10_AlwaysFinishes ==
    (pc = "receive") ~> (pc = "done" /\ file # {} /\ OutputMap = "unmapped")

\* C10 amended: the notification has been sent exactly once when the task
\* awaits it, so the await never blocks and the run terminates; it finishes
\* (bytes read, file written, buffer unmapped) when the map and the save
\* succeed and panics otherwise; the host task can be blocked only in the
\* device poll, while submitted work is outstanding.
C10_AwaitNeverBlocks ==
    /\ [](pc = "receive" => Len(chan) = 1)
    /\ (pc = "receive") ~> (pc \in Terminal)
    /\ <>(pc \in Terminal)
    /\ [](pc = "done" => received = "Ok" /\ file # {} /\ printed /\ OutputMap = "unmapped")
    /\ [](pc = "panicked" => err # "none")
    /\ [](Blocked => pc = "poll" /\ executed < Len(queue))

C10_Witness == pc = "done" /\ Len(chan) = 1 /\ file # {} /\ OutputMap = "unmapped"

====
